---- MODULE Spec2Model ----
(***************************************************************************)
(* Model of src/network/udt_socket.cpp: the udt_socket connection handle   *)
(* and the udt_epoll_service readiness poll service.                       *)
(*                                                                         *)
(* The UDT library is external.  Its primitives are the environment: each  *)
(* call site draws the primitive's outcome from the outcomes the library   *)
(* can report there.  A failing primitive returns UDT::ERROR and stores an *)
(* error code in the calling thread's last-error slot; a succeeding one    *)
(* leaves the slot as it was (the slot is only emptied by clear()).        *)
(***************************************************************************)
EXTENDS Integers, FiniteSets, Sequences, TLC

----------------------------------------------------------------------------
(* Bounds of the model *)

\* descriptors the transport knows: UDT::socket hands out 1..MaxSockets and
\* fails from then on
MaxSockets == 2
\* largest buffer length passed to readsome / writesome (lengths 1..MaxLen)
MaxLen == 2
\* width of size_t in the model (the conversion int -> size_t wraps modulo
\* 2^SizeBits; the real width is 32 or 64)
SizeBits == 8
\* tasks that call notify_read / notify_write
NumCallers == 1
\* promises created over a run
MaxPromises == 2

----------------------------------------------------------------------------
(* Library constants used by the code *)

\* UDT::ERROR, the failure return of every primitive
UDT_ERROR == -1
\* UDT::INVALID_SOCK, the sentinel descriptor
INVALID_SOCK == -1
\* CUDTException error codes
EASYNCRCV == 6002
EASYNCSND == 6001
ECONNLOST == 2001
ENOCONN == 2002
EINVSOCK == 5004
ENOSERVER == 1001
ENOBUF == 3002
ETIMEOUT == 6003
EINVPOLLID == 5013

----------------------------------------------------------------------------
VARIABLES
  \* udt_socket
  _udt_socket_id,   \* the handle's descriptor
  lasterror,        \* UDT::getlasterror() of the handle's thread (0 = none)
  usocks,           \* descriptors the transport currently has open
  connected,        \* descriptors the transport has connected
  next_sock,        \* next descriptor UDT::socket would hand out
  ret,              \* what the last call on the handle did
  zero_read,        \* history: a 0-byte non-error receive since the last open()
  close_calls       \* history: close() calls since the last open(), capped at 2

VARIABLES
  \* udt_epoll_service
  _read_promises,          \* map descriptor -> promise, as a set of pairs
  _write_promises,
  _read_promises_mutex,    \* the thread or task holding the mutex, {} when free
  _write_promises_mutex,
  canceled,                \* _epoll_loop.canceled()
  destroyed,               \* members of the service already destroyed
  epoll_in,                \* descriptors added to the epoll set with UDT_EPOLL_IN
  epoll_out,               \* descriptors added to the epoll set with UDT_EPOLL_OUT
  pc,                      \* position of the poll loop
  read_ready,              \* locals of the current iteration
  write_ready,
  wait_err,                \* error code of this iteration's epoll_wait (0 = none)
  todo,                    \* descriptors the running for loop has yet to visit
  itr,                     \* the entry find() found last in this iteration
  promises,                \* per promise created, its number of set_value() calls
  displaced,               \* history: <<direction, descriptor, promise>> of the
                           \* unfulfilled promises an assignment replaced
  caller                   \* position and arguments of each caller's notify_* call

sock_vars == << _udt_socket_id, usocks, connected, next_sock,
                ret, zero_read, close_calls >>

epoll_vars == << _read_promises, _write_promises, _read_promises_mutex,
                 _write_promises_mutex, canceled, destroyed, epoll_in,
                 epoll_out, pc, read_ready, write_ready, wait_err, todo, itr,
                 promises, displaced, caller >>

vars == << sock_vars, lasterror, epoll_vars >>

\* the descriptors the transport knows
FDs == 1..MaxSockets

Callers == 1..NumCallers

\* the thread that runs poll_loop, as a holder of a mutex
_epoll_thread == 0

\* the record a call leaves behind: op, how it ended, the value returned,
\* the length argument, the primitive's return value, the error code the
\* primitive reported (0 = none) and the error code of the udt_exception
\* thrown (0 = none)
Ret(op, outcome, value, arg, prim, prim_err) ==
  [op |-> op, outcome |-> outcome, value |-> value, arg |-> arg,
   prim |-> prim, prim_err |-> prim_err, thrown |-> 0]

\* the record of a call ended by the udt_exception check_udt_errors() threw
\* for the slot content `thrown`
Raised(op, thrown, arg, prim, prim_err) ==
  [Ret(op, "raised", 0, arg, prim, prim_err) EXCEPT !.thrown = thrown]

\* conversion of an int return value to size_t
ToSizeT(n) == n % (2 ^ SizeBits)

----------------------------------------------------------------------------
(* check_udt_errors *)

\* TRUE when check_udt_errors() throws udt_exception for this slot content
check_udt_errors_throws(slot) == slot # 0

\* the slot after check_udt_errors(): cleared when it throws
check_udt_errors_slot(slot) == IF slot # 0 THEN 0 ELSE slot

----------------------------------------------------------------------------
(* Outcomes of the transport primitives: <<return value, error code>> *)

UDT_socket_outcomes ==
  {<<next_sock, 0>> : x \in {y \in {1} : next_sock <= MaxSockets}}
    \cup {<<INVALID_SOCK, ENOBUF>>}

UDT_connect_outcomes(u) ==
  IF u \notin usocks THEN {<<UDT_ERROR, EINVSOCK>>}
  ELSE {<<0, 0>>, <<UDT_ERROR, ENOSERVER>>}

UDT_recv_outcomes(u, max) ==
  IF u \notin usocks THEN {<<UDT_ERROR, EINVSOCK>>}
  ELSE IF u \notin connected THEN {<<UDT_ERROR, ENOCONN>>}
  ELSE {<<n, 0>> : n \in 0..max}
         \cup {<<UDT_ERROR, EASYNCRCV>>, <<UDT_ERROR, ECONNLOST>>}

UDT_send_outcomes(u, len) ==
  IF u \notin usocks THEN {<<UDT_ERROR, EINVSOCK>>}
  ELSE IF u \notin connected THEN {<<UDT_ERROR, ENOCONN>>}
  ELSE {<<n, 0>> : n \in 0..len}
         \cup {<<UDT_ERROR, EASYNCSND>>, <<UDT_ERROR, ECONNLOST>>}

UDT_close_outcomes(u) ==
  IF u \notin usocks THEN {<<UDT_ERROR, EINVSOCK>>} ELSE {<<0, 0>>}

UDT_getname_outcomes(u) ==
  IF u \notin usocks THEN {<<UDT_ERROR, EINVSOCK>>}
  ELSE IF u \notin connected THEN {<<UDT_ERROR, ENOCONN>>}
  ELSE {<<0, 0>>}

\* the last-error slot after a primitive reported error code e
SlotAfter(e) == IF e # 0 THEN e ELSE lasterror

----------------------------------------------------------------------------
(* udt_socket *)

is_open == _udt_socket_id # INVALID_SOCK

eof == FALSE

open ==
  \E o \in UDT_socket_outcomes :
    /\ _udt_socket_id' = o[1]
    /\ lasterror' = SlotAfter(o[2])
    /\ usocks' = IF o[1] # INVALID_SOCK THEN usocks \cup {o[1]} ELSE usocks
    /\ next_sock' = IF o[1] # INVALID_SOCK THEN next_sock + 1 ELSE next_sock
    /\ ret' = Ret("open", "returned", 0, 0, o[1], o[2])
    /\ zero_read' = FALSE
    /\ close_calls' = 0
    /\ UNCHANGED << connected, epoll_vars >>

connect_to ==
  \E o \in UDT_connect_outcomes(_udt_socket_id) :
    LET slot == SlotAfter(o[2])
        checked == o[1] = UDT_ERROR
        throws == checked /\ check_udt_errors_throws(slot)
    IN /\ lasterror' = IF checked THEN check_udt_errors_slot(slot) ELSE slot
       /\ connected' = IF o[1] = 0 THEN connected \cup {_udt_socket_id}
                       ELSE connected
       /\ ret' = IF throws
                 THEN Raised("connect_to", slot, 0, o[1], o[2])
                 ELSE Ret("connect_to", "returned", 0, 0, o[1], o[2])
       /\ UNCHANGED << _udt_socket_id, usocks, next_sock, zero_read,
                       close_calls, epoll_vars >>

endpoint(op) ==
  \E o \in UDT_getname_outcomes(_udt_socket_id) :
    LET slot == SlotAfter(o[2])
        checked == o[1] = UDT_ERROR
        throws == checked /\ check_udt_errors_throws(slot)
    IN /\ lasterror' = IF checked THEN check_udt_errors_slot(slot) ELSE slot
       /\ ret' = IF throws
                 THEN Raised(op, slot, 0, o[1], o[2])
                 ELSE Ret(op, "returned", 0, 0, o[1], o[2])
       /\ UNCHANGED << _udt_socket_id, usocks, connected, next_sock,
                       zero_read, close_calls, epoll_vars >>

remote_endpoint == endpoint("remote_endpoint")

local_endpoint == endpoint("local_endpoint")

readsome ==
  \E max \in 1..MaxLen :
    \E o \in UDT_recv_outcomes(_udt_socket_id, max) :
      LET bytes_read == o[1]
          slot == SlotAfter(o[2])
          checked == bytes_read = UDT_ERROR /\ slot # EASYNCRCV
          throws == checked /\ check_udt_errors_throws(slot)
      IN /\ lasterror' = IF checked THEN check_udt_errors_slot(slot) ELSE slot
         /\ ret' = IF throws
                   THEN Raised("readsome", slot, max, o[1], o[2])
                   ELSE Ret("readsome", "returned", ToSizeT(bytes_read), max,
                            o[1], o[2])
         /\ zero_read' = (zero_read \/ bytes_read = 0)
         /\ UNCHANGED << _udt_socket_id, usocks, connected, next_sock,
                         close_calls, epoll_vars >>

writesome ==
  \E len \in 1..MaxLen :
    \E o \in UDT_send_outcomes(_udt_socket_id, len) :
      LET bytes_sent == o[1]
          slot == SlotAfter(o[2])
          checked == bytes_sent = UDT_ERROR
          throws == checked /\ check_udt_errors_throws(slot)
      IN /\ lasterror' = IF checked THEN check_udt_errors_slot(slot) ELSE slot
         /\ ret' = IF throws
                   THEN Raised("writesome", slot, len, o[1], o[2])
                   ELSE Ret("writesome", "returned", ToSizeT(bytes_sent), len,
                            o[1], o[2])
         /\ UNCHANGED << _udt_socket_id, usocks, connected, next_sock,
                         zero_read, close_calls, epoll_vars >>

close ==
  \E o \in UDT_close_outcomes(_udt_socket_id) :
    LET slot == SlotAfter(o[2])
        throws == check_udt_errors_throws(slot)
    IN /\ lasterror' = check_udt_errors_slot(slot)
       /\ usocks' = IF o[1] = 0 THEN usocks \ {_udt_socket_id} ELSE usocks
       /\ connected' = IF o[1] = 0 THEN connected \ {_udt_socket_id}
                       ELSE connected
       /\ ret' = IF throws
                 THEN Raised("close", slot, close_calls, o[1], o[2])
                 ELSE Ret("close", "returned", 0, close_calls, o[1], o[2])
       /\ close_calls' = IF close_calls < 2 THEN close_calls + 1 ELSE 2
       /\ UNCHANGED << _udt_socket_id, next_sock, zero_read, epoll_vars >>

----------------------------------------------------------------------------
(* std::unordered_map<int, promise<void>::ptr> as a set of <<key, value>> *)

\* find(k): the entries stored under k
MapFind(m, k) == {e \in m : e[1] = k}

\* variant of MapAssign: the new value is added next to the stored one
MapAssign_insert(m, k, v) == m \cup {<<k, v>>}

\* m[k] = v: the value stored under k is replaced
MapAssign(m, k, v) == {e \in m : e[1] # k} \cup {<<k, v>>}

\* variant of MapErase: the entry is left in the map
MapErase_keep(m, e) == m

\* variant of MapErase: every entry is removed
MapErase_clear(m, e) == {}

\* erase(itr)
MapErase(m, e) == m \ {e}

\* the next element a range-for over a std::set visits
SetFirst(S) == CHOOSE x \in S : \A y \in S : x <= y

\* promise<void>::set_value() on promise number p
set_value(p) == [promises EXCEPT ![p] = @ + 1]

\* outcomes of UDT::epoll_wait: <<read_ready, write_ready, error code>>;
\* only descriptors in the epoll set are reported, a timeout or a failure
\* reports none
UDT_epoll_wait_outcomes ==
  ({<<r, w, 0>> : r \in SUBSET epoll_in, w \in SUBSET epoll_out}
      \ {<<{}, {}, 0>>})
    \cup {<<{}, {}, ETIMEOUT>>, <<{}, {}, EINVPOLLID>>}

\* outcome of UDT::epoll_add_usock for descriptor u: the error code, 0 when
\* the descriptor was added; the transport rejects a descriptor it does not
\* know
UDT_epoll_add_usock(u) == IF u \in FDs THEN 0 ELSE EINVSOCK

----------------------------------------------------------------------------
(* udt_epoll_service::poll_loop, one action per step of the loop *)

poll_frame == << canceled, destroyed, epoll_in, epoll_out, caller, displaced,
                sock_vars, lasterror >>

\* variant of poll_loop_while: the loop condition does not look at the
\* cancellation request
poll_loop_while_forever ==
  /\ pc = "while"
  /\ pc' = "epoll_wait"
  /\ read_ready' = {}
  /\ write_ready' = {}
  /\ wait_err' = 0
  /\ itr' = <<>>
  /\ UNCHANGED << _read_promises, _write_promises, _read_promises_mutex,
                  _write_promises_mutex, todo, promises, poll_frame >>

\* while( !_epoll_loop.canceled() ), with fresh read_ready / write_ready
poll_loop_while ==
  /\ pc = "while"
  /\ pc' = IF canceled THEN "done" ELSE "epoll_wait"
  /\ read_ready' = {}
  /\ write_ready' = {}
  /\ wait_err' = 0
  /\ itr' = <<>>
  /\ UNCHANGED << _read_promises, _write_promises, _read_promises_mutex,
                  _write_promises_mutex, todo, promises, poll_frame >>

\* variant of poll_loop_epoll_wait: every error the wait reports, the
\* timeout included, ends the loop
poll_loop_epoll_wait_fatal ==
  /\ pc = "epoll_wait"
  /\ \E o \in UDT_epoll_wait_outcomes :
       /\ read_ready' = o[1]
       /\ write_ready' = o[2]
       /\ wait_err' = o[3]
       /\ pc' = IF o[3] # 0 THEN "done" ELSE "read_lock"
  /\ UNCHANGED << _read_promises, _write_promises, _read_promises_mutex,
                  _write_promises_mutex, todo, itr, promises, poll_frame >>

\* UDT::epoll_wait( _epoll_id, &read_ready, &write_ready, 1000 ); the
\* return value is not looked at
poll_loop_epoll_wait ==
  /\ pc = "epoll_wait"
  /\ \E o \in UDT_epoll_wait_outcomes :
       /\ read_ready' = o[1]
       /\ write_ready' = o[2]
       /\ wait_err' = o[3]
  /\ pc' = "read_lock"
  /\ UNCHANGED << _read_promises, _write_promises, _read_promises_mutex,
                  _write_promises_mutex, todo, itr, promises, poll_frame >>

\* synchronized(_read_promises_mutex)
poll_loop_read_lock ==
  /\ pc = "read_lock"
  /\ _read_promises_mutex = {}
  /\ _read_promises_mutex' = {_epoll_thread}
  /\ todo' = read_ready
  /\ pc' = "read_for"
  /\ UNCHANGED << _read_promises, _write_promises, _write_promises_mutex,
                  read_ready, write_ready, wait_err, itr, promises,
                  poll_frame >>

\* variant of poll_loop_read_for: a ready descriptor without entry is taken
\* out of the epoll set
poll_loop_read_for_unsubscribe ==
  /\ pc = "read_for"
  /\ IF todo = {}
     THEN /\ _read_promises_mutex' = {}
          /\ pc' = "write_lock"
          /\ UNCHANGED << todo, itr, promises, epoll_in >>
     ELSE LET sock == SetFirst(todo)
              found == MapFind(_read_promises, sock)
          IN IF found # {}
             THEN LET e == CHOOSE x \in found : TRUE
                  IN /\ promises' = set_value(e[2])
                     /\ itr' = e
                     /\ pc' = "read_erase"
                     /\ UNCHANGED << todo, _read_promises_mutex, epoll_in >>
             ELSE /\ todo' = todo \ {sock}
                  /\ epoll_in' = epoll_in \ {sock}
                  /\ UNCHANGED << pc, itr, promises, _read_promises_mutex >>
  /\ UNCHANGED << _read_promises, _write_promises, _write_promises_mutex,
                  read_ready, write_ready, wait_err, canceled, destroyed,
                  epoll_out, caller, displaced, sock_vars, lasterror >>

\* for( auto sock : read_ready ): find and set_value, or leave the block
poll_loop_read_for ==
  /\ pc = "read_for"
  /\ IF todo = {}
     THEN /\ _read_promises_mutex' = {}
          /\ pc' = "write_lock"
          /\ UNCHANGED << todo, itr, promises >>
     ELSE LET sock == SetFirst(todo)
              found == MapFind(_read_promises, sock)
          IN IF found # {}
             THEN LET e == CHOOSE x \in found : TRUE
                  IN /\ promises' = set_value(e[2])
                     /\ itr' = e
                     /\ pc' = "read_erase"
                     /\ UNCHANGED << todo, _read_promises_mutex >>
             ELSE /\ todo' = todo \ {sock}
                  /\ UNCHANGED << pc, itr, promises, _read_promises_mutex >>
  /\ UNCHANGED << _read_promises, _write_promises, _write_promises_mutex,
                  read_ready, write_ready, wait_err, poll_frame >>

\* variant of poll_loop_read_erase: the descriptor's entry in the write map
\* is removed as well
poll_loop_read_erase_both ==
  /\ pc = "read_erase"
  /\ _read_promises' = MapErase(_read_promises, itr)
  /\ _write_promises' = {e \in _write_promises : e[1] # itr[1]}
  /\ todo' = todo \ {itr[1]}
  /\ pc' = "read_for"
  /\ UNCHANGED << _read_promises_mutex, _write_promises_mutex, read_ready,
                  write_ready, wait_err, itr, promises, poll_frame >>

\* _read_promises.erase(itr)
poll_loop_read_erase ==
  /\ pc = "read_erase"
  /\ _read_promises' = MapErase(_read_promises, itr)
  /\ todo' = todo \ {itr[1]}
  /\ pc' = "read_for"
  /\ UNCHANGED << _write_promises, _read_promises_mutex,
                  _write_promises_mutex, read_ready, write_ready, wait_err,
                  itr, promises, poll_frame >>

\* variant of poll_loop_write_lock: the write pass iterates over read_ready
poll_loop_write_lock_read_ready ==
  /\ pc = "write_lock"
  /\ _write_promises_mutex = {}
  /\ _write_promises_mutex' = {_epoll_thread}
  /\ todo' = read_ready
  /\ pc' = "write_for"
  /\ UNCHANGED << _read_promises, _write_promises, _read_promises_mutex,
                  read_ready, write_ready, wait_err, itr, promises,
                  poll_frame >>

\* synchronized(_write_promises_mutex)
poll_loop_write_lock ==
  /\ pc = "write_lock"
  /\ _write_promises_mutex = {}
  /\ _write_promises_mutex' = {_epoll_thread}
  /\ todo' = write_ready
  /\ pc' = "write_for"
  /\ UNCHANGED << _read_promises, _write_promises, _read_promises_mutex,
                  read_ready, write_ready, wait_err, itr, promises,
                  poll_frame >>

\* for( auto sock : write_ready ): find and set_value, or leave the block
poll_loop_write_for ==
  /\ pc = "write_for"
  /\ IF todo = {}
     THEN /\ _write_promises_mutex' = {}
          /\ pc' = "while"
          /\ UNCHANGED << todo, itr, promises >>
     ELSE LET sock == SetFirst(todo)
              found == MapFind(_write_promises, sock)
          IN IF found # {}
             THEN LET e == CHOOSE x \in found : TRUE
                  IN /\ promises' = set_value(e[2])
                     /\ itr' = e
                     /\ pc' = "write_erase"
                     /\ UNCHANGED << todo, _write_promises_mutex >>
             ELSE /\ todo' = todo \ {sock}
                  /\ UNCHANGED << pc, itr, promises, _write_promises_mutex >>
  /\ UNCHANGED << _read_promises, _write_promises, _read_promises_mutex,
                  read_ready, write_ready, wait_err, poll_frame >>

\* _write_promises.erase(itr)
poll_loop_write_erase ==
  /\ pc = "write_erase"
  /\ _write_promises' = MapErase(_write_promises, itr)
  /\ todo' = todo \ {itr[1]}
  /\ pc' = "write_for"
  /\ UNCHANGED << _read_promises, _read_promises_mutex,
                  _write_promises_mutex, read_ready, write_ready, wait_err,
                  itr, promises, poll_frame >>

poll_loop ==
  \/ poll_loop_while
  \/ poll_loop_epoll_wait
  \/ poll_loop_read_lock
  \/ poll_loop_read_for
  \/ poll_loop_read_erase
  \/ poll_loop_write_lock
  \/ poll_loop_write_for
  \/ poll_loop_write_erase

----------------------------------------------------------------------------
(* udt_epoll_service::notify_read / notify_write, called by task c with a *)
(* promise it has just created                                            *)

\* the unfulfilled promises stored under fd that an assignment to m[fd]
\* drops from the map: nothing fulfils them afterwards
Replaced(dir, m, fd) ==
  {<<dir, e[1], e[2]>> : e \in {x \in MapFind(m, fd) : promises[x[2]] = 0}}

Idle == [pc |-> "idle", fd |-> 0, p |-> 0, dir |-> "none", add_err |-> 0]

notify_frame == << canceled, destroyed, pc, read_ready, write_ready, wait_err,
                   todo, itr, sock_vars >>

\* UDT::epoll_add_usock( _epoll_id, udt_socket_id, &events ); the return
\* value is not looked at
notify_read_add(c) ==
  /\ caller[c].pc = "idle"
  /\ Len(promises) < MaxPromises
  /\ \E fd \in FDs \cup {INVALID_SOCK} :
       LET err == UDT_epoll_add_usock(fd) IN
       /\ promises' = Append(promises, 0)
       /\ epoll_in' = IF err = 0 THEN epoll_in \cup {fd} ELSE epoll_in
       /\ caller' = [caller EXCEPT ![c] =
                       [pc |-> "lock", fd |-> fd, p |-> Len(promises) + 1,
                        dir |-> "read", add_err |-> err]]
  /\ UNCHANGED << _read_promises, _write_promises, _read_promises_mutex,
                  _write_promises_mutex, epoll_out, displaced, lasterror,
                  notify_frame >>

\* variant of notify_read_lock: the block is entered without waiting for the
\* holder of the mutex
notify_read_lock_nowait(c) ==
  /\ caller[c].pc = "lock"
  /\ caller[c].dir = "read"
  /\ _read_promises_mutex' = _read_promises_mutex \cup {c}
  /\ caller' = [caller EXCEPT ![c].pc = "store"]
  /\ UNCHANGED << _read_promises, _write_promises, _write_promises_mutex,
                  epoll_in, epoll_out, promises, displaced, lasterror,
                  notify_frame >>

\* synchronized(_read_promises_mutex)
notify_read_lock(c) ==
  /\ caller[c].pc = "lock"
  /\ caller[c].dir = "read"
  /\ _read_promises_mutex = {}
  /\ _read_promises_mutex' = {c}
  /\ caller' = [caller EXCEPT ![c].pc = "store"]
  /\ UNCHANGED << _read_promises, _write_promises, _write_promises_mutex,
                  epoll_in, epoll_out, promises, displaced, lasterror,
                  notify_frame >>

\* _read_promises[udt_socket_id] = p; and the end of the block
notify_read_store(c) ==
  /\ caller[c].pc = "store"
  /\ caller[c].dir = "read"
  /\ _read_promises' = MapAssign(_read_promises, caller[c].fd, caller[c].p)
  /\ displaced' = displaced \cup Replaced("read", _read_promises, caller[c].fd)
  /\ _read_promises_mutex' = {}
  /\ caller' = [caller EXCEPT ![c] = Idle]
  /\ UNCHANGED << _write_promises, _write_promises_mutex, epoll_in,
                  epoll_out, promises, lasterror, notify_frame >>

notify_read(c) ==
  \/ notify_read_add(c)
  \/ notify_read_lock(c)
  \/ notify_read_store(c)

notify_write_add(c) ==
  /\ caller[c].pc = "idle"
  /\ Len(promises) < MaxPromises
  /\ \E fd \in FDs \cup {INVALID_SOCK} :
       LET err == UDT_epoll_add_usock(fd) IN
       /\ promises' = Append(promises, 0)
       /\ epoll_out' = IF err = 0 THEN epoll_out \cup {fd} ELSE epoll_out
       /\ caller' = [caller EXCEPT ![c] =
                       [pc |-> "lock", fd |-> fd, p |-> Len(promises) + 1,
                        dir |-> "write", add_err |-> err]]
  /\ UNCHANGED << _read_promises, _write_promises, _read_promises_mutex,
                  _write_promises_mutex, epoll_in, displaced, lasterror,
                  notify_frame >>

\* synchronized(_write_promises_mutex)
notify_write_lock(c) ==
  /\ caller[c].pc = "lock"
  /\ caller[c].dir = "write"
  /\ _write_promises_mutex = {}
  /\ _write_promises_mutex' = {c}
  /\ caller' = [caller EXCEPT ![c].pc = "store"]
  /\ UNCHANGED << _read_promises, _write_promises, _read_promises_mutex,
                  epoll_in, epoll_out, promises, displaced, lasterror,
                  notify_frame >>

\* _write_promises[udt_socket_id] = p; and the end of the block
notify_write_store(c) ==
  /\ caller[c].pc = "store"
  /\ caller[c].dir = "write"
  /\ _write_promises' = MapAssign(_write_promises, caller[c].fd, caller[c].p)
  /\ displaced' = displaced
                     \cup Replaced("write", _write_promises, caller[c].fd)
  /\ _write_promises_mutex' = {}
  /\ caller' = [caller EXCEPT ![c] = Idle]
  /\ UNCHANGED << _read_promises, _read_promises_mutex, epoll_in,
                  epoll_out, promises, lasterror, notify_frame >>

notify_write(c) ==
  \/ notify_write_add(c)
  \/ notify_write_lock(c)
  \/ notify_write_store(c)

\* ~udt_epoll_service: _epoll_loop.cancel()
cancel ==
  /\ ~ canceled
  /\ canceled' = TRUE
  /\ UNCHANGED << destroyed, _read_promises, _write_promises, _read_promises_mutex,
                  _write_promises_mutex, epoll_in, epoll_out, pc, read_ready,
                  write_ready, wait_err, todo, itr, promises, displaced,
                  caller, sock_vars, lasterror >>

\* what the members other than `destroyed` look like to their destructors
destroy_frame == << _read_promises, _write_promises, _read_promises_mutex,
                    _write_promises_mutex, canceled, epoll_in, epoll_out, pc,
                    read_ready, write_ready, wait_err, todo, itr, promises,
                    displaced, caller, sock_vars, lasterror >>

\* fc::thread::~thread() quits the thread and joins it: it returns only once
\* the task running on the thread, poll_loop, has returned
thread_joined == pc = "done"

\* after the destructor body the members go in reverse order of declaration:
\* _epoll_thread (declared last but one) is destroyed first
destroy_epoll_thread ==
  /\ canceled
  /\ "_epoll_thread" \notin destroyed
  /\ thread_joined
  /\ destroyed' = destroyed \cup {"_epoll_thread"}
  /\ UNCHANGED destroy_frame

\* variant of destroy_promises: the maps and mutexes declared after
\* _epoll_thread, hence destroyed before it
destroy_promises_first ==
  /\ canceled
  /\ "_read_promises" \notin destroyed
  /\ destroyed' = destroyed \cup {"_read_promises", "_write_promises",
                                   "_read_promises_mutex",
                                   "_write_promises_mutex"}
  /\ UNCHANGED destroy_frame

\* the maps and the mutexes, declared before _epoll_thread, are destroyed
\* after it
destroy_promises ==
  /\ "_epoll_thread" \in destroyed
  /\ "_read_promises" \notin destroyed
  /\ destroyed' = destroyed \cup {"_read_promises", "_write_promises",
                                   "_read_promises_mutex",
                                   "_write_promises_mutex"}
  /\ UNCHANGED destroy_frame

----------------------------------------------------------------------------
Init ==
  /\ _udt_socket_id = INVALID_SOCK
  /\ lasterror = 0
  /\ usocks = {}
  /\ connected = {}
  /\ next_sock = 1
  /\ ret = Ret("udt_socket", "returned", 0, 0, 0, 0)
  /\ zero_read = FALSE
  /\ close_calls = 0
  /\ _read_promises = {}
  /\ _write_promises = {}
  /\ _read_promises_mutex = {}
  /\ _write_promises_mutex = {}
  /\ canceled = FALSE
  /\ destroyed = {}
  /\ epoll_in = {}
  /\ epoll_out = {}
  /\ pc = "while"
  /\ read_ready = {}
  /\ write_ready = {}
  /\ wait_err = 0
  /\ todo = {}
  /\ itr = <<>>
  /\ promises = <<>>
  /\ displaced = {}
  /\ caller = [c \in Callers |-> Idle]

Next ==
  \/ open
  \/ connect_to
  \/ remote_endpoint
  \/ local_endpoint
  \/ readsome
  \/ writesome
  \/ close

Spec == Init /\ [][Next]_vars

\* the poll service with its callers, while the service is alive
PollNext ==
  \/ poll_loop
  \/ \E c \in Callers : notify_read(c)
  \/ \E c \in Callers : notify_write(c)

PollSpec == Init /\ [][PollNext]_vars

\* the poll service with its callers and its destruction
ShutdownNext ==
  \/ PollNext
  \/ cancel
  \/ destroy_epoll_thread
  \/ destroy_promises

ShutdownSpec == Init /\ [][ShutdownNext]_vars

\* ShutdownSpec with the scheduling the code relies on: the poll loop runs
\* on a thread of its own and its wait is bounded, so it keeps taking steps
\* while it can; a notify call holding a mutex does nothing but its
\* assignment, so it gets to it
FairShutdownSpec ==
  /\ ShutdownSpec
  /\ WF_vars(poll_loop)
  /\ \A c \in Callers : WF_vars(notify_read_store(c) \/ notify_write_store(c))

\* the descriptors that are readable and writable from the start and stay so
AlwaysReady == {1}

\* a registration for fd in direction dir is outstanding: stored or replaced
\* and not fulfilled, or being made by a notify call
Outstanding(dir, fd) ==
  \/ \E e \in (IF dir = "read" THEN _read_promises ELSE _write_promises) :
       e[1] = fd /\ promises[e[2]] = 0
  \/ \E d \in displaced : d[1] = dir /\ d[2] = fd
  \/ \E c \in Callers :
       caller[c].pc # "idle" /\ caller[c].dir = dir /\ caller[c].fd = fd

\* poll_loop with a transport whose epoll_wait reports every descriptor of
\* AlwaysReady that is in the epoll set, in each direction it was added for
live_poll_loop ==
  /\ poll_loop
  /\ pc = "epoll_wait" =>
       /\ (AlwaysReady \cap epoll_in) \subseteq read_ready'
       /\ (AlwaysReady \cap epoll_out) \subseteq write_ready'

\* notify_read / notify_write called as the service requires: for a
\* descriptor of the transport, and not for a descriptor and direction with a
\* registration outstanding
live_notify_read(c) ==
  /\ notify_read(c)
  /\ caller[c].pc = "idle" =>
       caller'[c].fd \in FDs /\ ~ Outstanding("read", caller'[c].fd)

live_notify_write(c) ==
  /\ notify_write(c)
  /\ caller[c].pc = "idle" =>
       caller'[c].fd \in FDs /\ ~ Outstanding("write", caller'[c].fd)

LiveNext ==
  \/ live_poll_loop
  \/ \E c \in Callers : live_notify_read(c)
  \/ \E c \in Callers : live_notify_write(c)

\* the running service with the scheduling the code relies on: the loop's
\* thread keeps running, and a notify call holding a mutex gets to its
\* assignment
LiveSpec ==
  /\ Init
  /\ [][LiveNext]_vars
  /\ WF_vars(live_poll_loop)
  /\ \A c \in Callers : WF_vars(notify_read_store(c) \/ notify_write_store(c))

----------------------------------------------------------------------------
(* Properties of the connection handle, checked under Spec *)

\* C1: a readsome whose receive reported would-block (UDT::ERROR with
\* EASYNCRCV) never returns to its caller at that point; the would-block
\* condition is never handed back as a returned value.
C1_WouldBlockNotReturned ==
  ~ ( /\ ret.op = "readsome"
      /\ ret.outcome = "returned"
      /\ ret.prim = UDT_ERROR
      /\ ret.prim_err = EASYNCRCV )

\* C2: every readsome(buffer, max) / writesome(buffer, len) that returns
\* normally returns a count c with 0 <= c <= max (0 <= c <= len).
C2_CountWithinRequest ==
  (ret.op \in {"readsome", "writesome"} /\ ret.outcome = "returned")
    => (0 <= ret.value /\ ret.value <= ret.arg)

\* C3: when the send primitive accepts 0 bytes without reporting an error,
\* writesome does not return 0 to its caller.
C3_ZeroSendNotReturned ==
  ~ ( /\ ret.op = "writesome"
      /\ ret.outcome = "returned"
      /\ ret.prim = 0
      /\ ret.value = 0 )

\* C4: after any close(), returned or raised, is_open() is false, and a
\* close() that follows an earlier close() raises no failure.
C4_CloseIdempotent ==
  ret.op = "close" =>
    /\ ~ is_open
    /\ (ret.arg >= 1 => ret.outcome = "returned")

\* C5: eof() is false until a readsome observes a 0-byte result with no
\* would-block condition, true from then on, and false again only after
\* open().
C5_EofLatch == eof = zero_read

\* C10: an open() that returns normally leaves the handle holding a valid
\* (non-sentinel) descriptor; a failed allocation does not return normally.
C10_OpenValidOrFails ==
  (ret.op = "open" /\ ret.outcome = "returned") => is_open

----------------------------------------------------------------------------
(* Properties of the poll service, checked under PollSpec *)

Promises == 1..Len(promises)

\* the promises stored in map m that are not fulfilled
PendingIn(m, fd) == {e[2] : e \in {x \in MapFind(m, fd) : promises[x[2]] = 0}}

\* the promises registered for descriptor fd in direction dir whose waiter is
\* still suspended: the one stored in the map and the ones replaced there
Pending(dir, fd) ==
  PendingIn(IF dir = "read" THEN _read_promises ELSE _write_promises, fd)
    \cup {d[3] : d \in {x \in displaced : x[1] = dir /\ x[2] = fd}}

\* C6: no promise is fulfilled more than once, and a fulfilled promise is
\* present in its map only while the poll loop holds that map's mutex and is
\* about to erase that very entry, so no other task can see it there.
C6_FulfilledErasedAtomically ==
  /\ \A p \in Promises : promises[p] <= 1
  /\ \A e \in _read_promises :
       promises[e[2]] > 0 =>
         /\ _read_promises_mutex = {_epoll_thread}
         /\ pc = "read_erase"
         /\ itr = e
  /\ \A e \in _write_promises :
       promises[e[2]] > 0 =>
         /\ _write_promises_mutex = {_epoll_thread}
         /\ pc = "write_erase"
         /\ itr = e

\* C6 witness: the loop has fulfilled a promise and not yet erased it while
\* a notify_read call is waiting for the mutex.
C6_Witness ==
  /\ pc = "read_erase"
  /\ promises[itr[2]] = 1
  /\ itr \in _read_promises
  /\ \E c \in Callers : caller[c].pc = "lock" /\ caller[c].dir = "read"

\* C7 as stated: a descriptor never has two pending (registered, unfulfilled)
\* signals of the same direction, whatever the sequence of notify_read /
\* notify_write calls.
C7_OnePendingPerDescriptor ==
  \A fd \in FDs :
    /\ Cardinality(Pending("read", fd)) <= 1
    /\ Cardinality(Pending("write", fd)) <= 1

\* C7 amended: each map stores at most one promise per descriptor; a promise
\* that an assignment replaced in the map is stored in neither map and stays
\* unfulfilled, and every other registered promise is stored or fulfilled.
C7_OneStoredPerDescriptor ==
  /\ \A fd \in FDs \cup {INVALID_SOCK} :
       /\ Cardinality(MapFind(_read_promises, fd)) <= 1
       /\ Cardinality(MapFind(_write_promises, fd)) <= 1
  /\ \A d \in displaced :
       /\ promises[d[3]] = 0
       /\ \A e \in _read_promises \cup _write_promises : e[2] # d[3]
  /\ \A p \in Promises :
       \/ promises[p] = 1
       \/ \E c \in Callers : caller[c].p = p
       \/ \E e \in _read_promises \cup _write_promises : e[2] = p
       \/ \E d \in displaced : d[3] = p

\* C7 witness: two registrations for one descriptor and direction, the later
\* one stored, the earlier one replaced and still unfulfilled.
C7_Witness ==
  \E d \in displaced :
    /\ d[1] = "read"
    /\ d[2] \in FDs
    /\ promises[d[3]] = 0
    /\ \E e \in MapFind(_read_promises, d[2]) :
         e[2] # d[3] /\ promises[e[2]] = 0

\* the entry stored for descriptor b in map m, and its promise, are the same
\* before and after the step
Untouched(m, mNext, b) ==
  /\ MapFind(mNext, b) = MapFind(m, b)
  /\ \A e \in MapFind(m, b) : promises'[e[2]] = promises[e[2]]

\* C8: a step of the poll loop leaves the read registration of every
\* descriptor that this iteration did not report read-ready untouched (still
\* present, still unfulfilled), and likewise for write registrations; when
\* the read (write) pass ends, no descriptor reported read-ready
\* (write-ready) has an entry left in the read (write) map.
C8_OtherDescriptorUntouched ==
  [][ poll_loop =>
        /\ \A b \in (FDs \cup {INVALID_SOCK}) \ read_ready :
             Untouched(_read_promises, _read_promises', b)
        /\ \A b \in (FDs \cup {INVALID_SOCK}) \ write_ready :
             Untouched(_write_promises, _write_promises', b)
        /\ (pc = "read_for" /\ pc' = "write_lock") =>
             \A a \in read_ready : MapFind(_read_promises', a) = {}
        /\ (pc = "write_for" /\ pc' = "while") =>
             \A a \in write_ready : MapFind(_write_promises', a) = {}
    ]_vars

\* C8 witness: only descriptor a was reported read-ready, the read pass has
\* fulfilled and erased its promise, and descriptor b still has its
\* unfulfilled promise in the read map.
C8_Witness ==
  /\ pc = "write_lock"
  /\ itr # <<>>
  /\ read_ready = {itr[1]}
  /\ promises[itr[2]] = 1
  /\ MapFind(_read_promises, itr[1]) = {}
  /\ \E b \in FDs \ {itr[1]} :
       \E e \in MapFind(_read_promises, b) : promises[e[2]] = 0

\* C9: the read pass of the poll loop fulfils only promises stored in the
\* read map under a descriptor reported read-ready, then erases that entry,
\* and changes neither the write map nor any promise stored in it;
\* symmetrically for the write pass.
C9_ReadWriteIndependent ==
  [][ poll_loop =>
        /\ (pc \in {"read_lock", "read_for", "read_erase"}) =>
             /\ _write_promises' = _write_promises
             /\ \A e \in _write_promises : promises'[e[2]] = promises[e[2]]
        /\ (pc \in {"write_lock", "write_for", "write_erase"}) =>
             /\ _read_promises' = _read_promises
             /\ \A e \in _read_promises : promises'[e[2]] = promises[e[2]]
        /\ (pc = "read_for" /\ pc' = "read_erase") =>
             /\ itr' \in _read_promises
             /\ itr'[1] \in read_ready
             /\ promises'[itr'[2]] = 1
        /\ (pc = "read_erase") =>
             /\ _read_promises' = _read_promises \ {itr}
             /\ MapFind(_read_promises', itr[1]) = {}
        /\ (pc = "write_for" /\ pc' = "write_erase") =>
             /\ itr' \in _write_promises
             /\ itr'[1] \in write_ready
             /\ promises'[itr'[2]] = 1
        /\ (pc = "write_erase") =>
             /\ _write_promises' = _write_promises \ {itr}
             /\ MapFind(_write_promises', itr[1]) = {}
    ]_vars

\* C9 witness: a descriptor with a read and a write registration was
\* reported read-ready only; its read promise has been fulfilled and erased
\* and its write promise is still unfulfilled in the write map.
C9_Witness ==
  /\ pc = "write_lock"
  /\ itr # <<>>
  /\ itr[1] \in read_ready \ write_ready
  /\ promises[itr[2]] = 1
  /\ MapFind(_read_promises, itr[1]) = {}
  /\ \E e \in MapFind(_write_promises, itr[1]) : promises[e[2]] = 0

\* C11: no promise is ever stored in the read or the write map under a
\* descriptor whose epoll_add_usock the transport rejected: such a
\* notify_read / notify_write fails before it reaches the map.
C11_RejectedNotStored ==
  \A e \in _read_promises \cup _write_promises :
    UDT_epoll_add_usock(e[1]) = 0

----------------------------------------------------------------------------
(* Properties of the destruction of the poll service, under ShutdownSpec *)

\* C12: destruction first requests cancellation and destroys nothing before
\* that; once the maps and mutexes are destroyed the poll loop has returned
\* and holds neither mutex, so no step of the loop comes after their
\* destruction.
C12_LoopDoneBeforeRelease ==
  /\ destroyed # {} => canceled
  /\ "_read_promises" \in destroyed =>
       /\ pc = "done"
       /\ ~ ENABLED poll_loop
       /\ _epoll_thread \notin _read_promises_mutex \cup _write_promises_mutex

\* C12 witness: the service is destroyed after its loop has fulfilled a
\* promise, with another promise still stored in a map.
C12_Witness ==
  /\ "_read_promises" \in destroyed
  /\ \E p \in Promises : promises[p] = 1
  /\ _read_promises \cup _write_promises # {}

\* C13: once cancellation is requested the poll loop eventually returns,
\* whatever the readiness wait reports; and from the request on it starts no
\* further readiness wait: it finishes at most the iteration it is in.
C13_CanceledLoopTerminates ==
  /\ canceled ~> (pc = "done")
  /\ [][ (canceled /\ pc # "epoll_wait") => pc' # "epoll_wait" ]_vars

\* C13 witness: the loop has returned after a cancellation although no
\* descriptor was ever added to the epoll set, with a promise still stored.
C13_Witness ==
  /\ canceled
  /\ pc = "done"
  /\ epoll_in = {}
  /\ epoll_out = {}
  /\ _read_promises # {}

----------------------------------------------------------------------------
(* Further properties of the poll loop, checked under PollSpec *)

\* C14: after an epoll_wait that failed with an error other than the
\* timeout, the poll loop is over: no step fulfils a promise and the loop
\* does not enter another epoll_wait.
C14_WaitFailureFatal ==
  [][ (wait_err # 0 /\ wait_err # ETIMEOUT) =>
        /\ pc' # "epoll_wait"
        /\ \A p \in Promises : promises'[p] = promises[p]
    ]_vars

\* C15: each mutex has at most one holder; the poll loop holds the read
\* (write) mutex exactly during its read (write) pass, hence never in
\* epoll_wait; a notify call holds the mutex of its direction exactly while
\* it is at its assignment, hence never after it has returned to the task
\* that will wait on the promise; and a step changes a map only if the
\* thread or task taking it holds that map's mutex.
C15_MapsUnderOwnLock ==
  /\ [] ( /\ Cardinality(_read_promises_mutex) <= 1
          /\ Cardinality(_write_promises_mutex) <= 1
          /\ _epoll_thread \in _read_promises_mutex
               <=> pc \in {"read_for", "read_erase"}
          /\ _epoll_thread \in _write_promises_mutex
               <=> pc \in {"write_for", "write_erase"}
          /\ \A c \in Callers :
               /\ c \in _read_promises_mutex
                    <=> (caller[c].pc = "store" /\ caller[c].dir = "read")
               /\ c \in _write_promises_mutex
                    <=> (caller[c].pc = "store" /\ caller[c].dir = "write") )
  /\ [][ /\ _read_promises' # _read_promises =>
              \/ poll_loop /\ _read_promises_mutex = {_epoll_thread}
              \/ \E c \in Callers :
                   notify_read_store(c) /\ _read_promises_mutex = {c}
         /\ _write_promises' # _write_promises =>
              \/ poll_loop /\ _write_promises_mutex = {_epoll_thread}
              \/ \E c \in Callers :
                   notify_write_store(c) /\ _write_promises_mutex = {c}
       ]_vars

\* C15 witness: a notify_read call holds the read mutex at its assignment
\* while the poll loop, back from epoll_wait with a read-ready descriptor
\* that has an entry, waits for that mutex.
C15_Witness ==
  /\ pc = "read_lock"
  /\ \E fd \in read_ready : MapFind(_read_promises, fd) # {}
  /\ \E c \in Callers :
       /\ caller[c].pc = "store"
       /\ caller[c].dir = "read"
       /\ _read_promises_mutex = {c}

----------------------------------------------------------------------------
(* Error translation of the connection handle, checked under Spec *)

\* C16: whenever connect_to, readsome, writesome, close or an endpoint query
\* ends in a udt_exception, the primitive that call has just made failed,
\* the exception carries the error code of that very call, and the slot has
\* been cleared.
C16_RaisedCarriesFailingCall ==
  ( /\ ret.op \in {"connect_to", "readsome", "writesome", "close",
                   "remote_endpoint", "local_endpoint"}
    /\ ret.outcome = "raised" )
    => ( /\ ret.prim = UDT_ERROR
         /\ ret.thrown = ret.prim_err
         /\ lasterror = 0 )

\* C17: a close() whose UDT::close reported no error does not end in a
\* udt_exception for the would-block code EASYNCRCV that an earlier readsome
\* left in the slot.
C17_CloseRaisesOnlyOwnError ==
  (ret.op = "close" /\ ret.prim = 0) =>
    ~ (ret.outcome = "raised" /\ ret.thrown = EASYNCRCV)

----------------------------------------------------------------------------
(* Fulfilment by the poll loop, checked under PollSpec *)

\* promise p is stored in map m under a descriptor of the set ready
StoredReady(m, ready, p) == \E fd \in ready : <<fd, p>> \in m

\* C18: a step fulfils promise p only if it is a step of the read pass with
\* p stored in the read map under a descriptor in read_ready, or a step of
\* the write pass with p stored in the write map under a descriptor in
\* write_ready; and read_ready / write_ready hold what the epoll_wait of
\* the running iteration reported: they change only at that call and when
\* the next iteration starts with empty sets.
C18_FulfilOnlyReported ==
  [][ /\ \A p \in Promises :
           promises'[p] # promises[p] =>
             \/ pc = "read_for" /\ StoredReady(_read_promises, read_ready, p)
             \/ pc = "write_for"
                  /\ StoredReady(_write_promises, write_ready, p)
      /\ (read_ready' # read_ready \/ write_ready' # write_ready) =>
           \/ pc = "epoll_wait"
           \/ pc = "while" /\ read_ready' = {} /\ write_ready' = {}
    ]_vars

\* C18 witness: a descriptor with a read and a write registration was
\* reported write-ready only; the write pass has fulfilled its write
\* promise and its read promise is still unfulfilled in the read map.
C18_Witness ==
  /\ pc = "write_erase"
  /\ itr[1] \in write_ready \ read_ready
  /\ promises[itr[2]] = 1
  /\ \E e \in MapFind(_read_promises, itr[1]) : promises[e[2]] = 0

\* no descriptor of this iteration's ready sets has an entry in the map of
\* its direction
NothingToFulfil ==
  /\ \A fd \in read_ready : MapFind(_read_promises, fd) = {}
  /\ \A fd \in write_ready : MapFind(_write_promises, fd) = {}

\* where the loop goes from position at when it finds no entry
NextPosition(at) ==
  CASE at = "while" -> {"epoll_wait"}
    [] at = "epoll_wait" -> {"read_lock"}
    [] at = "read_lock" -> {"read_for"}
    [] at = "read_for" -> {"read_for", "write_lock"}
    [] at = "write_lock" -> {"write_for"}
    [] at = "write_for" -> {"write_for", "while"}
    [] OTHER -> {}

\* C19: while no descriptor in the ready sets has an entry (a timeout with
\* empty sets, or ready descriptors without registration), a step of the
\* poll loop fulfils no promise, changes neither map, and moves the loop on
\* through its passes and back to the next iteration: it neither erases nor
\* stops.
C19_EmptyIterationFrame ==
  [][ (poll_loop /\ NothingToFulfil) =>
        /\ promises' = promises
        /\ _read_promises' = _read_promises
        /\ _write_promises' = _write_promises
        /\ pc' \in NextPosition(pc)
    ]_vars

\* C19 witness: an iteration is over in which the wait reported a
\* read-ready descriptor without entry in the read map; nothing was found,
\* and the unfulfilled promise of another descriptor is still stored.
C19_Witness ==
  /\ pc = "while"
  /\ itr = <<>>
  /\ wait_err = 0
  /\ read_ready # {}
  /\ NothingToFulfil
  /\ \E e \in _read_promises : e[1] \in FDs /\ promises[e[2]] = 0

----------------------------------------------------------------------------
(* Wake-up of registered promises, checked under LiveSpec *)

\* C20: a promise stored by notify_read (notify_write) under a descriptor
\* that stays readable (writable) is eventually fulfilled, however the two
\* steps of the call interleaved with the loop's wait and passes.
C20_NoLostWakeup ==
  \A fd \in AlwaysReady :
    \A p \in 1..MaxPromises :
      /\ (<<fd, p>> \in _read_promises)
           ~> (p \in Promises /\ promises[p] = 1)
      /\ (<<fd, p>> \in _write_promises)
           ~> (p \in Promises /\ promises[p] = 1)

\* C20 witness: the wait has reported the descriptor read-ready and the read
\* pass is over without finding an entry, while the notify_read call that
\* added the descriptor is only now at its assignment.
C20_Witness ==
  \E fd \in AlwaysReady :
    /\ fd \in read_ready
    /\ pc \in {"write_lock", "write_for", "write_erase"}
    /\ MapFind(_read_promises, fd) = {}
    /\ \E c \in Callers :
         /\ caller[c].pc = "store"
         /\ caller[c].dir = "read"
         /\ caller[c].fd = fd
         /\ promises[caller[c].p] = 0

====
